---- MODULE Spec2Model ----
(***************************************************************************)
(* Model of the two batch scripts of small-mean-reverting-portfolios:      *)
(*   fetch_data.py   fetch_binance_data (the page loop) and                *)
(*                   fetch_top_cryptos_hourly_data (the batch driver);     *)
(*   concat_data.py  concatenate_closing_prices (common start date, then   *)
(*                   the filtered outer join of the closing prices).       *)
(* Three specifications share the module: Spec / FairSpec (one call of     *)
(* fetch_binance_data), BatchSpec (one call of the batch driver) and       *)
(* ConcatSpec (one call of concatenate_closing_prices).                    *)
(***************************************************************************)
EXTENDS Integers, Sequences, FiniteSets, TLC

VARIABLES
    \* ---- fetch_binance_data
    limit,        \* the limit parameter (rows per request)
    end_time,     \* the end_time parameter
    startTime,    \* params["startTime"], rewritten after every page
    data,         \* the list data: the candles received so far (open times)
    fpc,          \* "request" | "frame" | "done" | "raised"
    df,           \* the returned DataFrame's timestamp column
    requests,     \* history: the startTime of every request issued
    responses,    \* history: the candles of every 200 response, in order
    \* ---- fetch_top_cryptos_hourly_data
    sym,          \* position of the for loop in symbols
    requests_used,
    bpc,          \* "loop" | "paging" | "save" | "check" | "done"
    serverRows,   \* bars the remote endpoint still holds for the current symbol
    failAt,       \* the request of the current symbol answered with a non-200 status (0: none)
    nrows,        \* len(data) of the current symbol's fetch
    issued,       \* history: page requests issued for the current symbol
    issuedSinceReset, \* history: page requests issued since requests_used was last 0
    lastAdded,    \* history: amount the last processed symbol added to requests_used
    lastIssued,   \* history: page requests the last processed symbol issued
    attempted,    \* history: the symbols whose fetch was started, in order
    failed,       \* history: the symbols whose fetch raised
    saved,        \* the symbols whose CSV file was written
    slept,        \* seconds spent in time.sleep
    \* ---- concatenate_closing_prices
    dir,          \* the directory: file name -> [kind, rows]
    listing,      \* the order os.listdir returns the file names in
    cpc,          \* "step1" | "step2" | "concat" | "done" | "raised"
    pos,          \* position of the current for loop in listing
    latest_start_date,
    all_closing_prices,   \* the list of per-file frames
    concatenated_df       \* the combined table

fvars == <<limit, end_time, startTime, data, fpc, df, requests, responses>>
bvars == <<sym, requests_used, bpc, serverRows, failAt, nrows, issued, issuedSinceReset,
           lastAdded, lastIssued, attempted, failed, saved, slept>>
cvars == <<dir, listing, cpc, pos, latest_start_date, all_closing_prices,
           concatenated_df>>
vars == <<fvars, bvars, cvars>>

\* ------------------------------------------------------------------ bounds
MaxTime == 6        \* timestamps of the page-loop model are 1..MaxTime
MaxLimit == 3       \* the limit parameter of the page-loop model is 1..MaxLimit

\* ----------------------------------------------------------------- helpers
Min(S) == CHOOSE x \in S : \A y \in S : x <= y
Max(S) == CHOOSE x \in S : \A y \in S : x >= y

RECURSIVE SortedSeq(_)
SortedSeq(S) == IF S = {} THEN <<>> ELSE <<Min(S)>> \o SortedSeq(S \ {Min(S)})

RECURSIVE Flatten(_)
Flatten(ss) == IF ss = <<>> THEN <<>> ELSE Head(ss) \o Flatten(Tail(ss))

RECURSIVE SumLen(_)
SumLen(ss) == IF ss = <<>> THEN 0 ELSE Len(Head(ss)) + SumLen(Tail(ss))

Range(s) == {s[i] : i \in 1..Len(s)}

\* every order of the elements of a sequence
Orderings(lst) ==
    {[i \in 1..Len(lst) |-> lst[p[i]]] : p \in Permutations(1..Len(lst))}

\* ======================================================= fetch_binance_data
\* What the remote endpoint may answer a request {startTime, endTime, limit}
\* with: at most `limit` candles, strictly increasing open times, all within
\* [startTime, endTime].
ServerPages(s, e, lim) ==
    {SortedSeq(S) : S \in {T \in SUBSET (s..e) : Cardinality(T) <= lim}}

\* params["startTime"] = candles[-1][0] + 1
NextStartTimeSame(candles) == candles[Len(candles)]
NextStartTime(candles) == candles[Len(candles)] + 1

\* if len(candles) < limit: break
LastPageTest_LE(candles, lim) == Len(candles) <= lim
LastPageTest(candles, lim) == Len(candles) < lim

\* pd.to_datetime(df["timestamp"], unit="ms"): epoch milliseconds to
\* datetime64[ns], i.e. nanoseconds since the epoch.
ToDatetimeMs(ms) == ms * 1000000

\* df = pd.DataFrame(data, ...); df["timestamp"] = pd.to_datetime(...)
BuildFrame(rows) == [i \in 1..Len(rows) |-> ToDatetimeMs(rows[i])]

FetchInit ==
    /\ limit \in 1..MaxLimit
    /\ end_time = MaxTime
    /\ startTime \in 1..2
    /\ data = <<>>
    /\ fpc = "request"
    /\ df = <<>>
    /\ requests = <<>>
    /\ responses = <<>>

\* response.status_code != 200: raise Exception
RaiseNon200 ==
    /\ fpc = "request"
    /\ requests' = Append(requests, startTime)
    /\ fpc' = "raised"
    /\ UNCHANGED <<limit, end_time, startTime, data, df, responses>>
    /\ UNCHANGED <<bvars, cvars>>

\* if not candles: break
EmptyPage ==
    /\ fpc = "request"
    /\ <<>> \in ServerPages(startTime, end_time, limit)
    /\ requests' = Append(requests, startTime)
    /\ responses' = Append(responses, <<>>)
    /\ fpc' = "frame"
    /\ UNCHANGED <<limit, end_time, startTime, data, df>>
    /\ UNCHANGED <<bvars, cvars>>

\* a non-empty page: extend, advance startTime, break when it is short
ShortPage ==
    /\ fpc = "request"
    /\ \E candles \in ServerPages(startTime, end_time, limit) :
        /\ candles # <<>>
        /\ LastPageTest(candles, limit)
        /\ requests' = Append(requests, startTime)
        /\ responses' = Append(responses, candles)
        /\ data' = data \o candles
        /\ startTime' = NextStartTime(candles)
        /\ fpc' = "frame"
    /\ UNCHANGED <<limit, end_time, df>>
    /\ UNCHANGED <<bvars, cvars>>

FullPage ==
    /\ fpc = "request"
    /\ \E candles \in ServerPages(startTime, end_time, limit) :
        /\ candles # <<>>
        /\ ~LastPageTest(candles, limit)
        /\ requests' = Append(requests, startTime)
        /\ responses' = Append(responses, candles)
        /\ data' = data \o candles
        /\ startTime' = NextStartTime(candles)
        /\ fpc' = "request"
    /\ UNCHANGED <<limit, end_time, df>>
    /\ UNCHANGED <<bvars, cvars>>

\* the code after the loop: build the DataFrame and return it
ReturnFrame ==
    /\ fpc = "frame"
    /\ df' = BuildFrame(data)
    /\ fpc' = "done"
    /\ UNCHANGED <<limit, end_time, startTime, data, requests, responses>>
    /\ UNCHANGED <<bvars, cvars>>

\* ============================================ fetch_top_cryptos_hourly_data
NumSymbols == 3               \* len(symbols)
DefaultLimit == 1000          \* fetch_binance_data's default limit
RowsPerRequest == 1000        \* the divisor in len(df) // 1000 + 1
requests_per_minute == 4000
SleepSeconds == 60

\* The bars the remote endpoint holds for a symbol in [start_time, end_time]:
\* none, a short first page, exactly one full page, and enough full pages for
\* half of the request budget.
RowChoices ==
    {0, DefaultLimit - 1, DefaultLimit,
     (requests_per_minute \div 2 - 1) * DefaultLimit}

\* The request of a symbol's fetch the endpoint answers with a non-200 status
\* (0: none).
FailChoices == {0, 1, 2}

\* requests_used += len(df) // 1000 + 1
RequestEquivalents(n) == n \div RowsPerRequest + 1

\* if requests_used >= requests_per_minute
RateLimitReached_GT(used) == used > requests_per_minute
RateLimitReached(used) == used >= requests_per_minute

\* except Exception as e: print(...), and the for loop goes on
AfterException_Abort == "aborted"
AfterException == "loop"

BatchInit ==
    /\ sym = 1
    /\ requests_used = 0
    /\ bpc = "loop"
    /\ serverRows = 0
    /\ failAt = 0
    /\ nrows = 0
    /\ issued = 0
    /\ issuedSinceReset = 0
    /\ lastAdded = 0
    /\ lastIssued = 0
    /\ attempted = <<>>
    /\ failed = {}
    /\ saved = {}
    /\ slept = 0

\* for symbol in symbols: the next symbol's fetch_binance_data call begins
BeginSymbol ==
    /\ bpc = "loop"
    /\ sym <= NumSymbols
    /\ attempted' = Append(attempted, sym)
    /\ serverRows' \in RowChoices
    /\ failAt' \in FailChoices
    /\ nrows' = 0
    /\ issued' = 0
    /\ lastAdded' = 0
    /\ lastIssued' = 0
    /\ bpc' = "paging"
    /\ UNCHANGED <<sym, requests_used, issuedSinceReset, failed, saved, slept>>
    /\ UNCHANGED <<fvars, cvars>>

\* the for loop is exhausted
EndOfSymbols ==
    /\ bpc = "loop"
    /\ sym > NumSymbols
    /\ bpc' = "done"
    /\ UNCHANGED <<sym, requests_used, serverRows, failAt, nrows, issued,
                   issuedSinceReset, lastAdded, lastIssued, attempted, failed,
                   saved, slept>>
    /\ UNCHANGED <<fvars, cvars>>

\* a page request answered with a non-200 status: fetch_binance_data raises,
\* the except clause of the for loop catches it
PageError ==
    /\ bpc = "paging"
    /\ issued + 1 = failAt
    /\ issued' = issued + 1
    /\ issuedSinceReset' = issuedSinceReset + 1
    /\ lastIssued' = issued + 1
    /\ lastAdded' = 0
    /\ failed' = failed \cup {sym}
    /\ sym' = sym + 1
    /\ bpc' = AfterException
    /\ UNCHANGED <<requests_used, serverRows, failAt, nrows, attempted, saved,
                   slept>>
    /\ UNCHANGED <<fvars, cvars>>

\* a page of exactly `limit` candles: the while loop goes on
PageFull ==
    /\ bpc = "paging"
    /\ issued + 1 # failAt
    /\ serverRows >= DefaultLimit
    /\ issued' = issued + 1
    /\ issuedSinceReset' = issuedSinceReset + 1
    /\ nrows' = nrows + DefaultLimit
    /\ serverRows' = serverRows - DefaultLimit
    /\ UNCHANGED <<sym, requests_used, bpc, failAt, lastAdded, lastIssued,
                   attempted, failed, saved, slept>>
    /\ UNCHANGED <<fvars, cvars>>

\* a page of fewer than `limit` candles (possibly none): the while loop ends
PageLast ==
    /\ bpc = "paging"
    /\ issued + 1 # failAt
    /\ serverRows < DefaultLimit
    /\ issued' = issued + 1
    /\ issuedSinceReset' = issuedSinceReset + 1
    /\ nrows' = nrows + serverRows
    /\ serverRows' = 0
    /\ bpc' = "save"
    /\ UNCHANGED <<sym, requests_used, failAt, lastAdded, lastIssued,
                   attempted, failed, saved, slept>>
    /\ UNCHANGED <<fvars, cvars>>

\* df.to_csv(filename); requests_used += len(df) // 1000 + 1
SaveAndCount ==
    /\ bpc = "save"
    /\ saved' = saved \cup {sym}
    /\ requests_used' = requests_used + RequestEquivalents(nrows)
    /\ lastAdded' = RequestEquivalents(nrows)
    /\ lastIssued' = issued
    /\ bpc' = "check"
    /\ UNCHANGED <<sym, serverRows, failAt, nrows, issued, issuedSinceReset,
                   attempted, failed, slept>>
    /\ UNCHANGED <<fvars, cvars>>

\* if requests_used >= requests_per_minute: time.sleep(60); requests_used = 0
RateLimitPause ==
    /\ bpc = "check"
    /\ RateLimitReached(requests_used)
    /\ slept' = slept + SleepSeconds
    /\ requests_used' = 0
    /\ issuedSinceReset' = 0
    /\ sym' = sym + 1
    /\ bpc' = "loop"
    /\ UNCHANGED <<serverRows, failAt, nrows, issued, lastAdded, lastIssued,
                   attempted, failed, saved>>
    /\ UNCHANGED <<fvars, cvars>>

NoPause ==
    /\ bpc = "check"
    /\ ~RateLimitReached(requests_used)
    /\ sym' = sym + 1
    /\ bpc' = "loop"
    /\ UNCHANGED <<requests_used, serverRows, failAt, nrows, issued,
                   issuedSinceReset, lastAdded, lastIssued, attempted, failed,
                   saved, slept>>
    /\ UNCHANGED <<fvars, cvars>>

\* ================================================ concatenate_closing_prices
MaxStamp == 3       \* timestamps of the input files are 1..MaxStamp

\* The names os.listdir returns: three per-symbol files the Fetcher wrote and
\* one file that is no CSV file.
BTC == [stem |-> "BTCUSDT", ext |-> "_hourly.csv"]
ETH == [stem |-> "ETHUSDT", ext |-> "_hourly.csv"]
SOL == [stem |-> "SOLUSDT", ext |-> "_hourly.csv"]
README == [stem |-> "README", ext |-> ".md"]
Files == {BTC, ETH, SOL, README}
\* os.listdir returns them in arbitrary order
ListingOrders == {o \in Orderings(<<BTC, README, ETH, SOL>>) : o[2] = README}

\* file.endswith(".csv")
EndsWithCsv(file) == file.ext \in {"_hourly.csv", ".csv"}

\* crypto_name = file.replace("_hourly.csv", "")
CryptoName(file) ==
    IF file.ext = "_hourly.csv" THEN file.stem ELSE file.stem \o file.ext

\* The close value the file of a symbol holds at a timestamp: any value would
\* do, a distinct one per (file, timestamp) shows where a cell came from.
FileNo(file) == IF file = BTC THEN 1 ELSE IF file = ETH THEN 2 ELSE 3
PriceOf(file, t) == 100 * FileNo(file) + t

\* What a file may hold.
\*   "ok"            timestamp and close columns (header-only when rows = {})
\*   "no_close"      a timestamp column and no close column
\*   "no_timestamp"  no timestamp column
\*   "unreadable"    pd.read_csv or pd.to_datetime raises
\*   "not_csv"       a file whose name does not end in .csv (never read)
Contents(file) ==
    IF ~EndsWithCsv(file) THEN {[kind |-> "not_csv", rows |-> <<>>]}
    ELSE {[kind |-> k, rows |-> [t \in S |-> PriceOf(file, t)]] :
              k \in {"ok", "no_close"}, S \in SUBSET (1..MaxStamp)}
         \cup {[kind |-> k, rows |-> <<>>] : k \in {"no_timestamp", "unreadable"}}

\* Timestamps as pandas holds them: a Timestamp, the missing value NaT, and
\* Python's None (latest_start_date before any file set it).
Ts(t) == [tag |-> "ts", t |-> t]
NaT == [tag |-> "NaT", t |-> 0]
None == [tag |-> "None", t |-> 0]

\* a > b and a >= b on Timestamp/NaT: every comparison with NaT is False
TsGreater(a, b) == a.tag = "ts" /\ b.tag = "ts" /\ a.t > b.t
TsGreaterEqual(a, b) == a.tag = "ts" /\ b.tag = "ts" /\ a.t >= b.t

\* df['timestamp'].min(): NaT for a column of no rows
SeriesMin(content) ==
    IF DOMAIN content.rows = {} THEN NaT ELSE Ts(Min(DOMAIN content.rows))

HasTimestamp(content) == content.kind \in {"ok", "no_close"}
HasClose(content) == content.kind = "ok"

\* one iteration of the first for loop
ScanStart(latest, file, content) ==
    IF ~EndsWithCsv(file) THEN latest
    ELSE IF content.kind = "unreadable" THEN latest      \* caught and printed
    ELSE IF ~HasTimestamp(content) THEN latest
    ELSE LET start_date == SeriesMin(content)
         IN  IF latest = None \/ TsGreater(start_date, latest)
             THEN start_date ELSE latest

\* df = df[df['timestamp'] >= latest_start_date]
FilterRows(content, latest) ==
    LET keep == {t \in DOMAIN content.rows : TsGreaterEqual(Ts(t), latest)}
    IN  [t \in keep |-> content.rows[t]]

\* one iteration of the second for loop
ScanClose(frames, latest, file, content) ==
    IF ~EndsWithCsv(file) THEN frames
    ELSE IF content.kind = "unreadable" THEN frames      \* caught and printed
    ELSE IF ~(HasTimestamp(content) /\ HasClose(content)) THEN frames
    ELSE IF latest = None THEN frames   \* Series >= None raises: caught
    ELSE Append(frames, [file |-> file, name |-> CryptoName(file),
                         rows |-> FilterRows(content, latest)])

\* pd.concat(..., axis=1), join='outer': the row index is the union of the
\* frames' indexes; a DatetimeIndex that is not already aligned comes out
\* sorted, and the frames of files written in timestamp order are sorted.
RECURSIVE UnionIndex(_, _)
UnionIndex(S, frames) ==
    IF frames = <<>> THEN SortedSeq(S)
    ELSE UnionIndex(S \cup DOMAIN Head(frames).rows, Tail(frames))

RECURSIVE InnerIndexOf(_, _)
InnerIndexOf(S, frames) ==
    IF frames = <<>> THEN SortedSeq(S)
    ELSE InnerIndexOf(S \cap DOMAIN Head(frames).rows, Tail(frames))
JoinIndex_Inner(frames) == InnerIndexOf(1..MaxStamp, frames)
JoinIndex(frames) == UnionIndex({}, frames)

Null == [null |-> TRUE, v |-> 0]
Value(v) == [null |-> FALSE, v |-> v]

\* pd.concat(all_closing_prices, axis=1)
ConcatFrames(frames) ==
    LET index == JoinIndex(frames)
    IN  [index |-> index,
         columns |-> [i \in 1..Len(frames) |-> frames[i].name],
         cells |-> [i \in 1..Len(index) |->
                      [j \in 1..Len(frames) |->
                         IF index[i] \in DOMAIN frames[j].rows
                         THEN Value(frames[j].rows[index[i]]) ELSE Null]]]

NoTable == [index |-> <<>>, columns |-> <<>>, cells |-> <<>>]

ConcatInit ==
    /\ \E b \in Contents(BTC), e \in Contents(ETH), s \in Contents(SOL),
          r \in Contents(README) :
          dir = (BTC :> b) @@ (ETH :> e) @@ (SOL :> s) @@ (README :> r)
    /\ listing \in ListingOrders
    /\ cpc = "step1"
    /\ pos = 1
    /\ latest_start_date = None
    /\ all_closing_prices = <<>>
    /\ concatenated_df = NoTable

\* Step 1, one file of os.listdir
Step1File ==
    /\ cpc = "step1"
    /\ pos <= Len(listing)
    /\ latest_start_date' =
           ScanStart(latest_start_date, listing[pos], dir[listing[pos]])
    /\ pos' = pos + 1
    /\ UNCHANGED <<dir, listing, cpc, all_closing_prices, concatenated_df>>
    /\ UNCHANGED <<fvars, bvars>>

Step1End ==
    /\ cpc = "step1"
    /\ pos > Len(listing)
    /\ cpc' = "step2"
    /\ pos' = 1
    /\ UNCHANGED <<dir, listing, latest_start_date, all_closing_prices,
                   concatenated_df>>
    /\ UNCHANGED <<fvars, bvars>>

\* Step 2, one file of os.listdir
Step2File ==
    /\ cpc = "step2"
    /\ pos <= Len(listing)
    /\ all_closing_prices' =
           ScanClose(all_closing_prices, latest_start_date, listing[pos],
                     dir[listing[pos]])
    /\ pos' = pos + 1
    /\ UNCHANGED <<dir, listing, cpc, latest_start_date, concatenated_df>>
    /\ UNCHANGED <<fvars, bvars>>

\* pd.concat of an empty list raises ValueError, which nothing catches
ConcatRaises ==
    /\ cpc = "step2"
    /\ pos > Len(listing)
    /\ all_closing_prices = <<>>
    /\ cpc' = "raised"
    /\ UNCHANGED <<dir, listing, pos, latest_start_date, all_closing_prices,
                   concatenated_df>>
    /\ UNCHANGED <<fvars, bvars>>

\* pd.concat, to_csv, return
ConcatAndSave ==
    /\ cpc = "step2"
    /\ pos > Len(listing)
    /\ all_closing_prices # <<>>
    /\ concatenated_df' = ConcatFrames(all_closing_prices)
    /\ cpc' = "done"
    /\ UNCHANGED <<dir, listing, pos, latest_start_date, all_closing_prices>>
    /\ UNCHANGED <<fvars, bvars>>

\* ========================================================== specifications
FetchIdle ==
    /\ limit = 1 /\ end_time = 0 /\ startTime = 0 /\ data = <<>>
    /\ fpc = "idle" /\ df = <<>> /\ requests = <<>> /\ responses = <<>>

BatchIdle ==
    /\ sym = 0 /\ requests_used = 0 /\ bpc = "idle" /\ serverRows = 0
    /\ failAt = 0 /\ nrows = 0 /\ issued = 0 /\ issuedSinceReset = 0
    /\ lastAdded = 0 /\ lastIssued = 0 /\ attempted = <<>> /\ failed = {}
    /\ saved = {} /\ slept = 0

ConcatIdle ==
    /\ dir = <<>> /\ listing = <<>> /\ cpc = "idle" /\ pos = 0
    /\ latest_start_date = None /\ all_closing_prices = <<>>
    /\ concatenated_df = NoTable

\* one call of fetch_binance_data
Init == FetchInit /\ BatchIdle /\ ConcatIdle
Next == RaiseNon200 \/ EmptyPage \/ ShortPage \/ FullPage \/ ReturnFrame
Spec == Init /\ [][Next]_vars
\* the call runs on until it returns or raises
FairSpec == Init /\ [][Next]_vars /\ WF_vars(Next)

\* one call of fetch_top_cryptos_hourly_data
BatchStart == FetchIdle /\ BatchInit /\ ConcatIdle
BatchNext ==
    \/ BeginSymbol \/ EndOfSymbols \/ PageError \/ PageFull \/ PageLast
    \/ SaveAndCount \/ RateLimitPause \/ NoPause
BatchSpec == BatchStart /\ [][BatchNext]_vars

\* one call of concatenate_closing_prices
ConcatStart == FetchIdle /\ BatchIdle /\ ConcatInit
ConcatNext ==
    Step1File \/ Step1End \/ Step2File \/ ConcatRaises \/ ConcatAndSave
ConcatSpec == ConcatStart /\ [][ConcatNext]_vars

\* ---- the whole of concatenate_closing_prices as a function of the listing
RECURSIVE FindCommonStart(_, _, _)
FindCommonStart(lst, d, latest) ==
    IF lst = <<>> THEN latest
    ELSE FindCommonStart(Tail(lst), d, ScanStart(latest, Head(lst), d[Head(lst)]))

RECURSIVE CollectFrames(_, _, _, _)
CollectFrames(lst, d, latest, frames) ==
    IF lst = <<>> THEN frames
    ELSE CollectFrames(Tail(lst), d, latest,
                       ScanClose(frames, latest, Head(lst), d[Head(lst)]))

RunConcat(lst, d) ==
    LET latest == FindCommonStart(lst, d, None)
        frames == CollectFrames(lst, d, latest, <<>>)
    IN  [latest |-> latest,
         raised |-> (frames = <<>>),
         table |-> IF frames = <<>> THEN NoTable ELSE ConcatFrames(frames)]

\* ============================================================== properties
\* A table without the order of its rows and of its columns.
TableContent(t) ==
    [rows |-> Range(t.index),
     columns |-> Range(t.columns),
     cells |-> {<<t.index[i], t.columns[j], t.cells[i][j]>> :
                   i \in 1..Len(t.index), j \in 1..Len(t.columns)}]

\* the input series: the CSV files that have a timestamp column
InputSeries == {f \in Files : EndsWithCsv(f) /\ dir[f].kind \in {"ok", "no_close"}}
\* the files whose close column goes into the table
IncludedFiles == {f \in Files : EndsWithCsv(f) /\ dir[f].kind = "ok"}
\* the birth dates (minimum timestamps) of the input series that have rows
BirthDates == {Min(DOMAIN dir[f].rows) : f \in {g \in InputSeries : DOMAIN dir[g].rows # {}}}

\* ---------------------------------------------------------------- Spec
\* C1: when fetch_binance_data returns, the Series holds exactly the rows of
\* all pages received, in order: its row count is the sum of the page row
\* counts and its timestamps are strictly increasing (so without duplicates).
C1_SeriesIsAllPagesInOrder ==
    fpc = "done" =>
        /\ Len(df) = SumLen(responses)
        /\ \A i \in 1..Len(df) : df[i] = Flatten(responses)[i] * 1000000
        /\ \A i \in 1..(Len(df) - 1) : df[i] < df[i + 1]

\* a fetch of several pages has returned
C1_Witness ==
    /\ fpc = "done"
    /\ Len(responses) >= 3
    /\ Len(df) >= 4

\* what C2 says of every state of the page loop
C2_Safe ==
    \* a page that is empty or short is the last one, and no request follows it
    /\ \A i \in 1..Len(responses) :
          Len(responses[i]) < limit =>
              /\ i = Len(responses)
              /\ Len(requests) = i
              /\ fpc \in {"frame", "done"}
    \* once the call is over, every page of exactly limit rows was followed by
    \* another request
    /\ fpc \in {"done", "raised"} =>
          \A i \in 1..Len(responses) :
              Len(responses[i]) = limit => Len(requests) > i
    \* a later request starts after every timestamp received before it
    /\ \A i \in 2..Len(requests) : \A j \in 1..(i - 1) :
          \A k \in 1..Len(responses[j]) : requests[i] > responses[j][k]

\* C2: the page loop terminates; it stops right after the first empty or short
\* page, goes on after every full page, and never requests covered time.
C2_TerminatesWithoutRefetching ==
    /\ []C2_Safe
    /\ <>(fpc \in {"done", "raised"})

\* full pages, then an empty one that ends the loop
C2_Witness ==
    /\ fpc = "done"
    /\ Len(requests) >= 3
    /\ responses[Len(responses)] = <<>>
    /\ Len(responses[1]) = limit

\* ----------------------------------------------------------- BatchSpec
\* C3: a non-200 response aborts only the fetch of its identifier; the
\* identifiers are attempted in list order and the batch reaches the end of
\* the list whichever of them fail.
C3_FailureDoesNotStopBatch ==
    /\ bpc # "aborted"
    /\ \A i \in 1..Len(attempted) : attempted[i] = i
    /\ failed \subseteq Range(attempted)
    /\ failed \cap saved = {}
    /\ bpc = "loop" => Len(attempted) = sym - 1
    /\ bpc = "done" => Len(attempted) = NumSymbols

\* the first identifier failed, later ones were fetched and saved
C3_Witness ==
    /\ bpc = "done"
    /\ 1 \in failed
    /\ 2 \in saved
    /\ NumSymbols \in saved

\* C8: at the start of (and throughout) every identifier's fetch the count is
\* below the budget of 4000; a count at or over the budget is followed by a
\* 60 second sleep and a reset to 0 before the loop goes on.
C8_CountBelowBudgetAtFetchStart ==
    /\ [](bpc \in {"loop", "paging", "save"} => requests_used < 4000)
    /\ [][requests_used >= 4000 =>
             /\ requests_used' = 0
             /\ slept' = slept + 60
             /\ bpc' = "loop"]_vars

\* an identifier is being fetched after a pause
C8_Witness ==
    /\ bpc = "paging"
    /\ slept = 60
    /\ requests_used = 0

\* C9: after each identifier is processed, whether its fetch succeeded or
\* failed, the amount added to the count equals the page requests issued for
\* it, and the count equals the page requests issued since the last reset.
C9_CountEqualsRequestsIssued ==
    (bpc = "loop" /\ attempted # <<>>) =>
        /\ lastAdded = lastIssued
        /\ requests_used = issuedSinceReset

\* ---------------------------------------------------------- ConcatSpec
\* C4: step 1 leaves in latest_start_date the maximum over the input series
\* of the series' minimum timestamp.
C4_CommonStartIsMaxOfMins ==
    (cpc \in {"step2", "done", "raised"} /\ BirthDates # {}) =>
        latest_start_date = Ts(Max(BirthDates))

\* C5: the combined table is a union join: its row keys are the timestamps at
\* or after latest_start_date of all included files, each once, and a cell
\* holds the file's close value at the timestamp, or null when it has none.
C5_UnionJoin ==
    cpc = "done" =>
        LET t == concatenated_df
            Kept(f) == {x \in DOMAIN dir[f].rows :
                           latest_start_date.tag = "ts" /\ x >= latest_start_date.t}
        IN  /\ Range(t.index) = UNION {Kept(f) : f \in IncludedFiles}
            /\ \A i, k \in 1..Len(t.index) : t.index[i] = t.index[k] => i = k
            /\ Range(t.columns) = {f.stem : f \in IncludedFiles}
            /\ Len(t.columns) = Cardinality(IncludedFiles)
            /\ \A i \in 1..Len(t.index) : \A j \in 1..Len(t.columns) :
                  \A f \in IncludedFiles :
                      f.stem = t.columns[j] =>
                          t.cells[i][j] =
                              IF t.index[i] \in Kept(f)
                              THEN [null |-> FALSE, v |-> dir[f].rows[t.index[i]]]
                              ELSE [null |-> TRUE, v |-> 0]

\* a table with a row that one file fills and another leaves null
C5_Witness ==
    /\ cpc = "done"
    /\ Len(concatenated_df.index) >= 2
    /\ \E i \in 1..Len(concatenated_df.index) :
          \E j, k \in 1..Len(concatenated_df.columns) :
              /\ concatenated_df.cells[i][j].null
              /\ ~concatenated_df.cells[i][k].null

\* C6: every row of the combined table is at or after the latest birth date,
\* and every series loses exactly its rows before that date.
C6_RowsFromLatestBirthDate ==
    (cpc = "done" /\ BirthDates # {}) =>
        /\ \A i \in 1..Len(concatenated_df.index) :
              concatenated_df.index[i] >= Max(BirthDates)
        /\ \A n \in 1..Len(all_closing_prices) :
              DOMAIN all_closing_prices[n].rows =
                  {x \in DOMAIN dir[all_closing_prices[n].file].rows :
                      x >= Max(BirthDates)}

\* C7: the run skips the unusable files and completes, and the table it
\* produces is the table of the remaining files, one column for each.
C7_SkipsBadFilesAndCompletes ==
    cpc \in {"done", "raised"} =>
        /\ cpc = "done"
        /\ Range(concatenated_df.columns) = {f.stem : f \in IncludedFiles}
        /\ TableContent(concatenated_df) =
               TableContent(RunConcat(SelectSeq(listing,
                                LAMBDA f : f \in IncludedFiles), dir).table)

\* C10: the common start date and the combined table are the same for every
\* order of the directory listing, up to the order of rows and columns.
C10_ListingOrderIrrelevant ==
    cpc \in {"done", "raised"} =>
        \A o \in Orderings(listing) :
            LET r == RunConcat(o, dir)
            IN  /\ r.latest = latest_start_date
                /\ r.raised = (cpc = "raised")
                /\ TableContent(r.table) = TableContent(concatenated_df)

====
